---- MODULE Spec2Model ----
(***************************************************************************)
(* Source resolution and retrieval of kiara_plugin.onboarding: the         *)
(* dispatcher of OnboardFileModule, the three onboarding strategies        *)
(* (local file, url, Zenodo) and the download / extraction helper.         *)
(*                                                                         *)
(* Strings are sequences of one-character strings, so that startswith,     *)
(* "in", split and slicing are computed and not assumed.                   *)
(***************************************************************************)
EXTENDS Integers, Sequences, FiniteSets, TLC

VARIABLES source, fs, record, last

vars == <<source, fs, record, last>>

(***************************************************************************)
(* str operations                                                          *)
(***************************************************************************)

\* s.startswith(p)
StartsWith(s, p) == Len(s) >= Len(p) /\ SubSeq(s, 1, Len(p)) = p

\* sub occurs in s at index i (1-based)
OccursAt(s, sub, i) ==
    i >= 1 /\ i + Len(sub) - 1 <= Len(s) /\ SubSeq(s, i, i + Len(sub) - 1) = sub

\* "sub in s"
Contains(s, sub) == \E i \in 1..(Len(s) + 1) : OccursAt(s, sub, i)

\* the first index from i on at which sub occurs in s, 0 when there is none
RECURSIVE FindFrom(_, _, _)
FindFrom(s, sub, i) ==
    IF i + Len(sub) - 1 > Len(s) THEN 0
    ELSE IF OccursAt(s, sub, i) THEN i
    ELSE FindFrom(s, sub, i + 1)

\* s.find(sub) as a 1-based index, 0 when sub does not occur
Find(s, sub) == FindFrom(s, sub, 1)

\* s[n:]
DropFirst(s, n) == SubSeq(s, n + 1, Len(s))

\* s.split(sep): every non-overlapping occurrence, left to right
RECURSIVE Split(_, _)
Split(s, sep) ==
    LET i == Find(s, sep)
    IN IF i = 0
       THEN <<s>>
       ELSE <<SubSeq(s, 1, i - 1)>> \o Split(DropFirst(s, i + Len(sep) - 1), sep)

\* s.split(sep, maxsplit=1)
SplitOnce(s, sep) ==
    LET i == Find(s, sep)
    IN IF i = 0
       THEN <<s>>
       ELSE <<SubSeq(s, 1, i - 1), DropFirst(s, i + Len(sep) - 1)>>

\* seq[-1]
LastOf(seq) == seq[Len(seq)]

\* the literals the strategies test for
Slash == <<"/">>
HttpScheme == <<"h", "t", "t", "p", ":", "/", "/">>
HttpsScheme == <<"h", "t", "t", "p", "s", ":", "/", "/">>
ZenodoScheme == <<"z", "e", "n", "o", "d", "o", ":">>
ZenodoToken == <<"/", "z", "e", "n", "o", "d", "o", ".">>
Md5Tag == <<"m", "d", "5", ":">>

(***************************************************************************)
(* The environment: the file system and the Zenodo record                  *)
(***************************************************************************)

\* what os.path finds at os.path.abspath(p): "none", "file" or "dir"
PathKind(p) == IF p \in DOMAIN fs THEN fs[p] ELSE "none"

IsFile(p) == PathKind(p) = "file"
IsDir(p) == PathKind(p) = "dir"
Exists(p) == PathKind(p) # "none"

(***************************************************************************)
(* accepts_uri of the three strategies: each answers a (bool, reason) pair *)
(***************************************************************************)

LOCAL_FILE == "local_file"
URL == "url"
ZENODO == "zenodo"

ONBOARDING_MODEL_NAME_PREFIX == "onboarding.file.from."

\* _kiara_model_id of a strategy: the prefix and the kind
ModelId(kind) == <<ONBOARDING_MODEL_NAME_PREFIX, kind>>

\* the onboarding models the registry holds, in its enumeration order
Registry == <<ModelId(LOCAL_FILE), ModelId(URL), ModelId(ZENODO)>>

LocalAcceptsUri(uri) ==
    IF IsFile(uri)
    THEN <<TRUE, "local file exists and is file">>
    ELSE <<FALSE, "local file does not exist or is not a file">>

RemoteAcceptsUri(uri) ==
    IF \E protocol \in {HttpScheme, HttpsScheme} : StartsWith(uri, protocol)
    THEN <<TRUE, "url is valid (starts with http or https)">>
    ELSE <<FALSE, "url is not valid (does not start with http or https)">>

ZenodoAcceptsUri(uri) ==
    IF StartsWith(uri, ZenodoScheme)
    THEN <<TRUE, "url is valid (follows format 'zenodo:<doi>')">>
    ELSE IF Contains(uri, ZenodoToken)
         THEN <<TRUE, "url is valid (contains '/zenodo.')">>
         ELSE <<FALSE, "url is not valid (does not follow format 'zenodo:<doi>')">>

AcceptsUri(id, uri) ==
    CASE id = ModelId(LOCAL_FILE) -> LocalAcceptsUri(uri)
      [] id = ModelId(URL) -> RemoteAcceptsUri(uri)
      [] id = ModelId(ZENODO) -> ZenodoAcceptsUri(uri)

\* the answer of a strategy: the first component of the pair
Accepted(id, uri) == AcceptsUri(id, uri)[1]

\* Python's truth value of a tuple, which is what "if x:" tests: non-empty
TupleTruth(t) == Len(t) > 0

(***************************************************************************)
(* Results of one call                                                     *)
(***************************************************************************)

\* one step a call performed; i is the index of the record's file it
\* concerns (0 when it concerns none)
Ev(e, i) == [e |-> e, i |-> i]

NoError == [kind |-> "none", refs |-> {}]

\* a raised exception: its class or kind, and the underlying errors its
\* message or cause chain refers to
Err(kind) == [kind |-> kind, refs |-> {}]

NoMetadata ==
    [attached |-> FALSE, response_headers |-> <<>>, request_time |-> "none",
     import_config |-> "none", zenodo_record_data |-> FALSE]

NoArtifact ==
    [kind |-> "none", file_name |-> <<>>, md5 |-> <<>>, import_config |-> "none",
     metadata |-> NoMetadata]

NoParse == [parsed |-> FALSE, doi |-> <<>>, zid |-> <<>>, file_path |-> <<>>]

Parsed(doi, zid, file_path) ==
    [parsed |-> TRUE, doi |-> doi, zid |-> zid, file_path |-> file_path]

\* what a strategy's operation did: the steps in order, the exception it
\* raised (or NoError), the artifact it returned (or NoArtifact) and the
\* values it parsed from the uri
Res(events, error, artifact, parse) ==
    [events |-> events, error |-> error, artifact |-> artifact, parse |-> parse]

Raised(events, kind, parse) == Res(events, Err(kind), NoArtifact, parse)

(***************************************************************************)
(* download helper                                                         *)
(***************************************************************************)

\* the headers of the hops of one GET: r.history holds the redirect
\* responses in the order they were followed, r.headers the final response
RedirectHeaders(hops) == [k \in 1..hops |-> <<"redirect", k>>]
FinalHeaders == <<"final", 0>>

\* mutant: only the responses of r.history are recorded
ResponseHistory_RedirectsOnly(hops) == RedirectHeaders(hops)

\* history.append(dict(r.headers)); for h in r.history: history.append(...)
ResponseHistory(hops) == <<FinalHeaders>> \o RedirectHeaders(hops)

\* the metadata download_file builds after the body was written
DownloadMetadata(hops) ==
    [attached |-> TRUE, response_headers |-> ResponseHistory(hops),
     request_time |-> "after_body_written", import_config |-> "none",
     zenodo_record_data |-> FALSE]

\* download_file(url, file_name, attach_metadata): stream to a temporary
\* file, name the file, load it, attach the metadata
DownloadFile(url, payload, file_name, attach_metadata, hops, netok) ==
    IF ~netok
    THEN Raised(<<Ev("stream", 0)>>, "transfer", NoParse)
    ELSE LET name == IF file_name = <<>> THEN LastOf(Split(url, Slash))
                     ELSE file_name
             file == [kind |-> "file", file_name |-> name, md5 |-> payload,
                      import_config |-> "none",
                      metadata |-> IF attach_metadata THEN DownloadMetadata(hops)
                                   ELSE NoMetadata]
         IN Res(<<Ev("stream", 0), Ev("load_file", 0)>>
                    \o (IF attach_metadata THEN <<Ev("attach_metadata", 0)>> ELSE <<>>),
                NoError, file, NoParse)

\* download_file as the Zenodo strategy calls it, with target= and
\* return_md5_hash=True: the file artifact and the MD5 digest of the bytes
\* written, computed while streaming
DownloadFileMd5(i, payload, file_name, attach_metadata, hops, netok) ==
    IF ~netok
    THEN [events |-> <<Ev("stream", i)>>, error |-> Err("transfer"),
          file_model |-> NoArtifact, md5_digest |-> <<>>]
    ELSE [events |-> <<Ev("stream", i), Ev("load_file", i)>>
                        \o (IF attach_metadata THEN <<Ev("attach_metadata", i)>>
                            ELSE <<>>),
          error |-> NoError,
          file_model |-> [kind |-> "file", file_name |-> file_name, md5 |-> payload,
                          import_config |-> "none",
                          metadata |-> IF attach_metadata THEN DownloadMetadata(hops)
                                       ELSE NoMetadata],
          md5_digest |-> payload]

(***************************************************************************)
(* Zenodo strategy                                                         *)
(***************************************************************************)

\* the doi the uri names; "unbound" when neither branch assigns it (the
\* first use of doi then raises UnboundLocalError)
ZenodoDoi(uri) ==
    IF StartsWith(uri, ZenodoScheme)
    THEN <<"bound", DropFirst(uri, Len(ZenodoScheme))>>
    ELSE IF Contains(uri, ZenodoToken)
         THEN <<"bound", uri>>
         ELSE <<"unbound", <<>>>>

\* mutant: the scan does not stop at the first match, the last one is kept
FindMatch_LastMatch(files, file_path) ==
    IF \E i \in 1..Len(files) : files[i].key = file_path
    THEN CHOOSE i \in 1..Len(files) :
            files[i].key = file_path
                /\ \A j \in (i + 1)..Len(files) : files[j].key # file_path
    ELSE 0

\* the index of the first file of the record whose key is file_path, 0 when
\* there is none
FindMatch(files, file_path) ==
    IF \E i \in 1..Len(files) : files[i].key = file_path
    THEN CHOOSE i \in 1..Len(files) :
            files[i].key = file_path /\ \A j \in 1..(i - 1) : files[j].key # file_path
    ELSE 0

\* "Can't find file ... Available files: ...": the keys the message lists
FileNotFound(files) ==
    [kind |-> "file_not_found", refs |-> {files[i].key : i \in 1..Len(files)}]

\* mutant: the comparison never finds a difference
ChecksumDiffers_NeverRaises(checksum, md5_digest) == FALSE

\* checksum != md5_digest
ChecksumDiffers(checksum, md5_digest) == checksum # md5_digest

\* file_data["checksum"][4:]
DeclaredMd5(file_data) == DropFirst(file_data.checksum, 4)

\* mutant: a mismatch is noted and the call goes on
FetchVerified_WarnsOnly(files, i, file_name, attach_metadata, hops, netok) ==
    LET dl == DownloadFileMd5(i, files[i].payload, file_name, attach_metadata,
                              hops, netok)
    IN IF dl.error # NoError
       THEN dl
       ELSE [dl EXCEPT !.events = dl.events \o <<Ev("compare", i)>>]

\* the download of the record's file i and the comparison of its digest,
\* as retrieve and retrieve_bundle do it for a single file
FetchVerified(files, i, file_name, attach_metadata, hops, netok) ==
    LET dl == DownloadFileMd5(i, files[i].payload, file_name, attach_metadata,
                              hops, netok)
    IN IF dl.error # NoError
       THEN dl
       ELSE IF ChecksumDiffers(DeclaredMd5(files[i]), dl.md5_digest)
            THEN [dl EXCEPT !.events = dl.events \o <<Ev("compare", i)>>,
                            !.error = Err("integrity")]
            ELSE [dl EXCEPT !.events = dl.events \o <<Ev("compare", i)>>]

\* bundle.metadata["zenodo_record_data"] = record.data
WithRecordData(artifact, attach_metadata) ==
    IF attach_metadata
    THEN [artifact EXCEPT !.metadata.zenodo_record_data = TRUE]
    ELSE artifact

\* FileFromZenodoModel.retrieve(uri, file_name, attach_metadata)
ZenodoRetrieve(uri, file_name, attach_metadata, found, hops, netok) ==
    LET d == ZenodoDoi(uri)
        doi == d[2]
        tokens == Split(doi, ZenodoToken)
        path_components == SplitOnce(tokens[2], Slash)
        file_path == path_components[2]
        doi2 == tokens[1] \o ZenodoToken \o path_components[1]
        parse == Parsed(doi2, path_components[1], file_path)
        files == record
        m == FindMatch(files, file_path)
        name == LastOf(Split(file_path, Slash))
        dl == FetchVerified(files, m, name, attach_metadata, hops, netok)
        looked == <<Ev("find_record_by_doi", 0)>>
    IN IF d[1] = "unbound" THEN Raised(<<>>, "UnboundLocalError", NoParse)
       ELSE IF Len(tokens) # 2 THEN Raised(<<>>, "cannot_parse_doi", NoParse)
       ELSE IF Len(path_components) # 2 THEN Raised(<<>>, "cannot_parse_doi", NoParse)
       ELSE IF ~found THEN Raised(looked, "lookup", parse)
       ELSE IF m = 0 THEN Res(looked, FileNotFound(files), NoArtifact, parse)
       ELSE IF dl.error # NoError
            THEN Res(looked \o dl.events, dl.error, NoArtifact, parse)
       ELSE Res(looked \o dl.events
                    \o (IF attach_metadata THEN <<Ev("attach_record_data", m)>>
                        ELSE <<>>),
                NoError, WithRecordData(dl.file_model, attach_metadata), parse)

\* mutant: the loop goes on after a failed file and reports the first error
\* at its end
RECURSIVE DownloadAll_KeepsGoing(_, _, _, _, _)
DownloadAll_KeepsGoing(files, i, attach_metadata, hops, netfail) ==
    IF i > Len(files)
    THEN [events |-> <<>>, error |-> NoError]
    ELSE LET dl == FetchVerified(files, i, files[i].key, attach_metadata, hops,
                                 netfail # i)
             rest == DownloadAll_KeepsGoing(files, i + 1, attach_metadata, hops,
                                            netfail)
         IN [events |-> dl.events \o rest.events,
             error |-> IF dl.error # NoError THEN dl.error ELSE rest.error]

\* the loop of retrieve_bundle over record.data["files"], from file i on:
\* each file is downloaded and compared, the first exception ends the loop
RECURSIVE DownloadAll(_, _, _, _, _)
DownloadAll(files, i, attach_metadata, hops, netfail) ==
    IF i > Len(files)
    THEN [events |-> <<>>, error |-> NoError]
    ELSE LET dl == FetchVerified(files, i, files[i].key, attach_metadata, hops,
                                 netfail # i)
         IN IF dl.error # NoError
            THEN [events |-> dl.events, error |-> dl.error]
            ELSE LET rest == DownloadAll(files, i + 1, attach_metadata, hops, netfail)
                 IN [events |-> dl.events \o rest.events, error |-> rest.error]

\* os.path.join(path, file_name): a file_name that starts with '/' replaces
\* the path, any other is appended after a '/'
OsPathJoin(path, file_name) ==
    IF StartsWith(file_name, Slash) THEN file_name
    ELSE IF path = <<>> \/ LastOf(path) = "/" THEN path \o file_name
    ELSE path \o Slash \o file_name

\* the targets retrieve_bundle passes to download_file for the files of the
\* record it downloads into the directory path, in the order of the
\* downloads: target = os.path.join(path, file_data["key"])
DownloadTargets(path, files, events) ==
    LET started == SelectSeq(events, LAMBDA st : st.e = "stream")
    IN [k \in 1..Len(started) |-> OsPathJoin(path, files[started[k].i].key)]

\* a bundle imported from a directory under an import configuration
Bundle(import_config) ==
    [kind |-> "bundle", file_name |-> <<>>, md5 |-> <<>>,
     import_config |-> import_config, metadata |-> NoMetadata]

\* FileFromZenodoModel.retrieve_bundle(uri, import_config, attach_metadata)
ZenodoRetrieveBundle(uri, import_config, attach_metadata, found, hops, netfail, unpacks) ==
    LET d == ZenodoDoi(uri)
        doi == d[2]
        tokens == Split(doi, ZenodoToken)
        path_components == SplitOnce(tokens[2], Slash)
        zid == path_components[1]
        \* <<>> stands for None as well: "if not file_path" takes both alike
        file_path == IF Len(path_components) = 2 THEN path_components[2] ELSE <<>>
        doi2 == tokens[1] \o ZenodoToken \o zid
        parse == Parsed(doi2, zid, file_path)
        files == record
        looked == <<Ev("find_record_by_doi", 0)>>
        all == DownloadAll(files, 1, attach_metadata, hops, netfail)
        m == FindMatch(files, file_path)
        name == LastOf(Split(file_path, Slash))
        dl == FetchVerified(files, m, name, attach_metadata, hops, netfail # m)
        attach == IF attach_metadata THEN <<Ev("attach_record_data", 0)>> ELSE <<>>
    IN IF d[1] = "unbound" THEN Raised(<<>>, "UnboundLocalError", NoParse)
       ELSE IF Len(tokens) # 2 THEN Raised(<<>>, "cannot_parse_doi", NoParse)
       ELSE IF ~found THEN Raised(looked, "lookup", parse)
       ELSE IF file_path = <<>>
       THEN IF all.error # NoError
            THEN Res(looked \o <<Ev("mkdir", 0)>> \o all.events, all.error,
                     NoArtifact, parse)
            ELSE Res(looked \o <<Ev("mkdir", 0)>> \o all.events
                        \o <<Ev("import_folder", 0)>> \o attach,
                     NoError, WithRecordData(Bundle("default"), attach_metadata),
                     parse)
       ELSE IF m = 0 THEN Res(looked, FileNotFound(files), NoArtifact, parse)
       ELSE IF dl.error # NoError
            THEN Res(looked \o dl.events, dl.error, NoArtifact, parse)
       ELSE IF ~unpacks
            THEN Raised(looked \o dl.events \o <<Ev("from_archive_file", m)>>,
                        "extraction", parse)
       ELSE Res(looked \o dl.events \o <<Ev("from_archive_file", m)>> \o attach,
                NoError, WithRecordData(Bundle(import_config), attach_metadata),
                parse)

(***************************************************************************)
(* url strategy and download_file_bundle                                   *)
(***************************************************************************)

\* the exception download_file_bundle keeps when both attempts failed:
\* "error = e" in the handler of the second attempt
KeptError(primary_error, secondary_error) == {secondary_error}

\* raise KiaraException(msg=f"Could not extract archive: {error}.")
ExtractionError(primary_error, secondary_error) ==
    [kind |-> "extraction", refs |-> KeptError(primary_error, secondary_error)]

\* mutant: no second attempt
ExtractArchive_NoFallback(primary_ok, secondary_ok) ==
    IF primary_ok
    THEN [events |-> <<Ev("unpack_archive", 0)>>, error |-> NoError]
    ELSE [events |-> <<Ev("unpack_archive", 0)>>,
          error |-> [kind |-> "extraction", refs |-> {"unpack_archive_error"}]]

\* the try / except chain of download_file_bundle: shutil.unpack_archive,
\* and patoolib.extract_archive in its handler
ExtractArchive(primary_ok, secondary_ok) ==
    IF primary_ok
    THEN [events |-> <<Ev("unpack_archive", 0)>>, error |-> NoError]
    ELSE IF secondary_ok
         THEN [events |-> <<Ev("unpack_archive", 0), Ev("patool", 0)>>,
               error |-> NoError]
         ELSE [events |-> <<Ev("unpack_archive", 0), Ev("patool", 0)>>,
               error |-> ExtractionError("unpack_archive_error", "patool_error")]

\* the metadata download_file_bundle builds after the import
DownloadBundleMetadata(hops, import_config) ==
    [DownloadMetadata(hops) EXCEPT !.import_config = import_config]

\* download_file_bundle(url, attach_metadata, import_config)
DownloadFileBundle(url, attach_metadata, import_config, hops, netok, primary_ok, secondary_ok) ==
    LET x == ExtractArchive(primary_ok, secondary_ok)
        got == <<Ev("stream", 0), Ev("mkdtemp", 0)>> \o x.events
    IN IF ~netok THEN Raised(<<Ev("stream", 0)>>, "transfer", NoParse)
       ELSE IF x.error # NoError THEN Res(got, x.error, NoArtifact, NoParse)
       ELSE Res(got \o <<Ev("import_folder", 0)>>
                    \o (IF attach_metadata THEN <<Ev("attach_metadata", 0)>>
                        ELSE <<>>),
                NoError,
                [Bundle(import_config) EXCEPT
                    !.metadata = IF attach_metadata
                                 THEN DownloadBundleMetadata(hops, import_config)
                                 ELSE NoMetadata],
                NoParse)

\* FileFromRemoteModel.retrieve
RemoteRetrieve(uri, payload, file_name, attach_metadata, hops, netok) ==
    DownloadFile(uri, payload, file_name, attach_metadata, hops, netok)

\* FileFromRemoteModel.retrieve_bundle
RemoteRetrieveBundle(uri, import_config, attach_metadata, hops, netok, primary_ok, secondary_ok) ==
    DownloadFileBundle(uri, attach_metadata, import_config, hops, netok, primary_ok,
                       secondary_ok)

(***************************************************************************)
(* local file strategy                                                     *)
(***************************************************************************)

\* FileFromLocalModel.retrieve: FileModel.load_file(uri)
LocalRetrieve(uri, payload, file_name, attach_metadata) ==
    IF ~Exists(uri) THEN Raised(<<>>, "path_does_not_exist", NoParse)
    ELSE IF ~IsFile(uri) THEN Raised(<<>>, "path_is_not_a_file", NoParse)
    ELSE Res(<<Ev("load_file", 0)>>, NoError,
             [kind |-> "file", file_name |-> LastOf(Split(uri, Slash)),
              md5 |-> payload, import_config |-> "none", metadata |-> NoMetadata],
             NoParse)

\* FileFromLocalModel.retrieve_bundle: FileBundle.import_folder(uri, import_config)
LocalRetrieveBundle(uri, import_config, attach_metadata) ==
    IF ~Exists(uri) THEN Raised(<<>>, "path_does_not_exist", NoParse)
    ELSE IF ~IsDir(uri) THEN Raised(<<>>, "path_is_not_a_directory", NoParse)
    ELSE Res(<<Ev("import_folder", 0)>>, NoError, Bundle(import_config), NoParse)

(***************************************************************************)
(* OnboardFileModule: dispatch                                             *)
(***************************************************************************)

\* no model class (None)
NoModel == <<"", "">>

IsRegistered(id) == \E i \in 1..Len(Registry) : Registry[i] = id

\* "if python_cls.accepts_uri(uri)": the truth value of what accepts_uri
\* answers, which is the pair
AcceptsTest(id, uri) == TupleTruth(AcceptsUri(id, uri))

\* the orders in which the registry may enumerate its models
RegistryOrders ==
    {o \in [1..Len(Registry) -> {Registry[i] : i \in 1..Len(Registry)}] :
        \A i, j \in 1..Len(Registry) : o[i] = o[j] => i = j}

\* mutant: the scan stops at the first model that passes the test
FindMatchingIn_StopsAtFirst(onboard_models, uri) ==
    LET passing == SelectSeq(onboard_models, LAMBDA id : AcceptsTest(id, uri))
    IN IF passing = <<>> THEN <<>> ELSE <<passing[1]>>

\* the loop of find_matching_onboard_models over the models as enumerated
FindMatchingIn(onboard_models, uri) ==
    SelectSeq(onboard_models, LAMBDA id : AcceptsTest(id, uri))

\* find_matching_onboard_models(uri)
FindMatchingOnboardModels(uri) == FindMatchingIn(Registry, uri)

\* mutant: of several matches the first is taken
ChooseMatch_FirstOfSeveral(model_clsses) ==
    IF Len(model_clsses) = 0 THEN [error |-> Err("no_onboard_model"), model_cls |-> NoModel]
    ELSE [error |-> NoError, model_cls |-> model_clsses[1]]

\* the choice among the matches: none and several are errors
ChooseMatch(model_clsses) ==
    IF Len(model_clsses) = 0 THEN [error |-> Err("no_onboard_model"), model_cls |-> NoModel]
    ELSE IF Len(model_clsses) > 1 THEN [error |-> Err("ambiguous"), model_cls |-> NoModel]
    ELSE [error |-> NoError, model_cls |-> model_clsses[1]]

\* a model class named explicitly: it is looked up, then asked again
ExplicitModel(id, uri) ==
    IF ~IsRegistered(id) THEN [error |-> Err("unknown_onboard_type"), model_cls |-> NoModel]
    ELSE IF ~AcceptsTest(id, uri) THEN [error |-> Err("rejects_source"), model_cls |-> NoModel]
    ELSE [error |-> NoError, model_cls |-> id]

\* the first part of process: config onboard_type (a model id, NoModel when
\* not set) and the onboard_type input (a kind, "" when not set)
Dispatch(config_type, input_type, uri) ==
    IF config_type = NoModel
    THEN IF input_type = ""
         THEN ChooseMatch(FindMatchingOnboardModels(uri))
         ELSE ExplicitModel(<<ONBOARDING_MODEL_NAME_PREFIX, input_type>>, uri)
    ELSE ExplicitModel(config_type, uri)

\* the parameters retrieve declares (none has a default) and the keyword
\* arguments process calls it with
RetrieveParameters == {"uri", "file_name", "attach_metadata"}
ProcessPasses == {"uri", "file_name"}

\* whether Python can bind the call model.retrieve(uri=..., file_name=...)
CallBinds == RetrieveParameters \subseteq ProcessPasses /\ ProcessPasses \subseteq RetrieveParameters

\* retrieve of the model class chosen
Retrieve(id, uri, payload, file_name, attach_metadata, found, hops, netok) ==
    CASE id = ModelId(LOCAL_FILE) -> LocalRetrieve(uri, payload, file_name, attach_metadata)
      [] id = ModelId(URL) ->
            RemoteRetrieve(uri, payload, file_name, attach_metadata, hops, netok)
      [] id = ModelId(ZENODO) ->
            ZenodoRetrieve(uri, file_name, attach_metadata, found, hops, netok)

(***************************************************************************)
(* The state: one call on an environment                                   *)
(***************************************************************************)

\* the answers of accepts_uri of the registered models, in registry order
Answers(uri) == [i \in 1..Len(Registry) |-> Accepted(Registry[i], uri)]

\* the outcome of a dispatch: the error raised and the model class chosen
NoDispatch == [error |-> NoError, model_cls |-> NoModel]

\* no second call of process made
NoCall ==
    [made |-> FALSE, order |-> <<>>, dispatch |-> NoDispatch,
     res |-> Res(<<>>, NoError, NoArtifact, NoParse)]

\* no call made yet; of a call, last keeps the inputs (primary_ok and
\* secondary_ok: whether shutil.unpack_archive and patool can extract the
\* archive), the answers of accepts_uri, the model class chosen and the result
Idle ==
    [op |-> "idle", config_type |-> NoModel, input_type |-> "", file_name |-> <<>>,
     attach_metadata |-> FALSE, import_config |-> "none", hops |-> 0,
     primary_ok |-> TRUE, secondary_ok |-> TRUE, answers |-> <<>>, model_cls |-> NoModel, retrieve_entered |-> FALSE,
     output |-> NoArtifact, output_metadata |-> NoMetadata,
     dispatch |-> NoDispatch, again |-> NoCall, path |-> <<>>, targets |-> <<>>,
     res |-> Res(<<>>, NoError, NoArtifact, NoParse)]

\* a call of a strategy's operation and what it did
StrategyCall(op, file_name, attach_metadata, import_config, hops, res) ==
    [Idle EXCEPT !.op = op, !.file_name = file_name,
                 !.attach_metadata = attach_metadata,
                 !.import_config = import_config, !.hops = hops, !.res = res]

\* lines 161-183 of process: the call of retrieve, then the check of its
\* result, then outputs.set_value("file", data)
ProcessCall(config_type, input_type, file_name, d, retrieved) ==
    LET base == [Idle EXCEPT !.op = "process", !.config_type = config_type,
                             !.input_type = input_type, !.file_name = file_name,
                             !.answers = Answers(source),
                             !.model_cls = d.model_cls, !.dispatch = d]
    IN IF d.error # NoError
       THEN [base EXCEPT !.res = Res(<<>>, d.error, NoArtifact, NoParse)]
       ELSE IF ~CallBinds
            THEN [base EXCEPT !.res = Raised(<<Ev("call_retrieve", 0)>>, "TypeError",
                                             NoParse)]
            ELSE [base EXCEPT !.retrieve_entered = TRUE,
                              !.res = [retrieved EXCEPT
                                          !.events = <<Ev("call_retrieve", 0)>> \o @],
                              !.output = retrieved.artifact]

(***************************************************************************)
(* DownloadFileModule                                                      *)
(***************************************************************************)

\* mutant: the file of what was written is set as output when the transfer
\* failed
DownloadFileProcess_KeepsPartial(url, payload, file_name, hops, netok, set_ok) ==
    LET name == IF file_name = <<>> THEN LastOf(Split(url, Slash)) ELSE file_name
        result_file == [kind |-> "file", file_name |-> name, md5 |-> payload,
                        import_config |-> "none", metadata |-> NoMetadata]
        base == [Idle EXCEPT !.op = "download.file", !.file_name = file_name,
                             !.hops = hops]
        loaded == <<Ev("stream", 0), Ev("load_file", 0)>>
    IN IF ~netok
       THEN [base EXCEPT !.res = Raised(<<Ev("stream", 0)>>, "transfer", NoParse),
                         !.output = result_file]
       ELSE IF ~set_ok
            THEN [base EXCEPT !.res = Raised(loaded \o <<Ev("set_download_metadata", 0)>>,
                                             "invalid_output_field", NoParse)]
            ELSE [base EXCEPT !.res = Res(loaded \o <<Ev("set_download_metadata", 0),
                                                      Ev("set_file", 0)>>,
                                          NoError, result_file, NoParse),
                              !.output_metadata = DownloadMetadata(hops),
                              !.output = result_file]

\* DownloadFileModule.process: the url is streamed to a temporary file, the
\* file is named and loaded, then the outputs "download_metadata" and "file"
\* are set in this order. set_ok: whether the host takes the value of
\* "download_metadata" (the outputs schema declares the field only when the
\* module is configured with download_metadata)
DownloadFileProcess(url, payload, file_name, hops, netok, set_ok) ==
    LET name == IF file_name = <<>> THEN LastOf(Split(url, Slash)) ELSE file_name
        result_file == [kind |-> "file", file_name |-> name, md5 |-> payload,
                        import_config |-> "none", metadata |-> NoMetadata]
        base == [Idle EXCEPT !.op = "download.file", !.file_name = file_name,
                             !.hops = hops]
        loaded == <<Ev("stream", 0), Ev("load_file", 0)>>
    IN IF ~netok
       THEN [base EXCEPT !.res = Raised(<<Ev("stream", 0)>>, "transfer", NoParse)]
       ELSE IF ~set_ok
            THEN [base EXCEPT !.res = Raised(loaded \o <<Ev("set_download_metadata", 0)>>,
                                             "invalid_output_field", NoParse)]
            ELSE [base EXCEPT !.res = Res(loaded \o <<Ev("set_download_metadata", 0),
                                                      Ev("set_file", 0)>>,
                                          NoError, result_file, NoParse),
                              !.output_metadata = DownloadMetadata(hops),
                              !.output = result_file]

(***************************************************************************)
(* The inputs and environments explored                                    *)
(***************************************************************************)

MaxFiles == 2
MaxHops == 2

Doi10 == <<"1", "0", ".", "5", "2", "8", "1">>
Id1234 == <<"1", "2", "3", "4">>
DataFileCsv == <<"d", "a", "t", "a", "/", "f", "i", "l", "e", ".", "c", "s", "v">>
HttpsHost == HttpsScheme \o <<"h">>
HttpHost == HttpScheme \o <<"h">>
FtpHost == <<"f", "t", "p", ":", "/", "/", "h">>
KeyA == <<"a">>
KeyBA == <<"b", "/", "a">>

\* [zenodo:]<prefix>/zenodo.<id>/<path>
Compose(zp, prefix, id, path) ==
    (IF zp THEN ZenodoScheme ELSE <<>>) \o prefix \o ZenodoToken \o id \o Slash \o path

\* [zenodo:]<prefix>/zenodo.<id>
ComposeRecord(zp, prefix, id) ==
    (IF zp THEN ZenodoScheme ELSE <<>>) \o prefix \o ZenodoToken \o id

\* [zenodo:]<prefix>/<path>
ComposePlain(zp, prefix, path) ==
    (IF zp THEN ZenodoScheme ELSE <<>>) \o prefix \o Slash \o path

Prefixes ==
    {<<>>, Doi10, HttpsHost, HttpHost \o <<"/", "d">>, FtpHost,
     Doi10 \o ZenodoToken \o <<"9">>}

Ids == {<<>>, <<"1">>, Id1234}

Paths == {<<>>, KeyA, KeyBA, DataFileCsv, KeyA \o ZenodoToken \o <<"2">>, <<"/", "a">>}

\* the uris of the specification that explores uri shapes
UriForms ==
    {Compose(zp, p, i, f) : zp \in BOOLEAN, p \in Prefixes, i \in Ids, f \in Paths}
    \cup {ComposeRecord(zp, p, i) : zp \in BOOLEAN, p \in Prefixes, i \in Ids}
    \cup {ComposePlain(zp, p, f) : zp \in BOOLEAN, p \in Prefixes, f \in Paths}

\* the uris of the specification that explores records and transfers
SampleUris ==
    {Compose(zp, p, <<"1">>, f) : zp \in BOOLEAN, p \in {Doi10, HttpsHost},
                                  f \in {<<>>, KeyA, KeyBA}}
    \cup {ComposeRecord(TRUE, Doi10, <<"1">>), ComposePlain(FALSE, <<"/", "d">>, KeyA),
          ComposePlain(FALSE, HttpHost, KeyA), ComposePlain(FALSE, FtpHost, KeyA),
          ComposePlain(TRUE, Doi10, KeyA)}

\* the sample uris that name the record or a file of it
RecordUris ==
    {ComposeRecord(TRUE, Doi10, <<"1">>), Compose(TRUE, Doi10, <<"1">>, KeyA),
     Compose(FALSE, HttpsHost, <<"1">>, KeyBA), Compose(FALSE, Doi10, <<"1">>, <<>>)}

Digests == {<<"x">>, <<"y">>}

\* a file of a Zenodo record: its key, its declared checksum "md5:<digest>",
\* and (payload) the MD5 digest of the bytes its links.self serves
Descriptors ==
    [key : {KeyA, KeyBA}, checksum : {Md5Tag \o g : g \in Digests}, payload : Digests]

RECURSIVE SeqsUpTo(_, _)
SeqsUpTo(S, n) ==
    IF n = 0 THEN {<<>>}
    ELSE LET shorter == SeqsUpTo(S, n - 1)
         IN shorter \cup {Append(q, x) : q \in {r \in shorter : Len(r) = n - 1}, x \in S}

Records == SeqsUpTo(Descriptors, MaxFiles)

DefaultRecord ==
    <<[key |-> KeyA, checksum |-> Md5Tag \o <<"x">>, payload |-> <<"x">>]>>

\* keys of record files that are not plain relative names
KeyAbs == <<"/", "a">>
KeyUp == <<".", ".", "/", "a">>

\* the records of the specification that explores keys: every file serves
\* the bytes it declares
KeyDescriptors ==
    [key : {KeyA, KeyBA, KeyAbs, KeyUp}, checksum : {Md5Tag \o <<"x">>},
     payload : {<<"x">>}]

KeyRecords == SeqsUpTo(KeyDescriptors, MaxFiles)

\* the fresh directories FileBundle.create_tmp_dir() may return
TmpDirs == {<<"/", "t", "/", "1">>, <<"/", "t", "/", "2">>}

PathKinds == {"none", "file", "dir"}

ConfigTypes == {NoModel, ModelId(LOCAL_FILE), ModelId(URL), ModelId(ZENODO),
                <<ONBOARDING_MODEL_NAME_PREFIX, "ftp">>}
InputTypes == {"", LOCAL_FILE, URL, ZENODO, "ftp"}
FileNames == {<<>>, <<"n">>}
ImportConfigs == {"only_csv", "flatten"}

(***************************************************************************)
(* Specifications                                                          *)
(***************************************************************************)

\* os.path.abspath("") is the working directory
FsOk == source = <<>> => fs[source] = "dir"

\* every sample uri over every kind of path with the default record, and
\* the uris that name the record over every record
Init ==
    /\ \/ /\ source \in SampleUris
          /\ fs \in [{source} -> PathKinds]
          /\ record = DefaultRecord
       \/ /\ source \in RecordUris
          /\ fs = [p \in {source} |-> "none"]
          /\ record \in Records
    /\ FsOk
    /\ last = Idle

InitUri ==
    /\ source \in UriForms
    /\ fs \in [{source} -> PathKinds]
    /\ FsOk
    /\ record = DefaultRecord
    /\ last = Idle

\* the uris that name the record, over records with every kind of key
InitKeys ==
    /\ source \in RecordUris
    /\ fs = [p \in {source} |-> "none"]
    /\ record \in KeyRecords
    /\ last = Idle

\* OnboardFileModule.process
Process ==
    /\ last = Idle
    /\ \E config_type \in ConfigTypes, input_type \in InputTypes, file_name \in FileNames :
          /\ config_type # NoModel => input_type = ""
          /\ LET d == Dispatch(config_type, input_type, source)
             IN IF d.error # NoError \/ ~CallBinds
                THEN last' = ProcessCall(config_type, input_type, file_name, d, Idle.res)
                ELSE \E payload \in Digests, found \in BOOLEAN, hops \in 0..MaxHops,
                        netok \in BOOLEAN :
                        last' = ProcessCall(config_type, input_type, file_name, d,
                                    Retrieve(d.model_cls, source, payload, file_name,
                                             TRUE, found, hops, netok))
    /\ UNCHANGED <<source, fs, record>>

\* OnboardFileModule.process called a second time with the inputs of the
\* first call, in auto-detect mode, the registry enumerating its models in
\* any order
ProcessAgain ==
    /\ last.op = "process"
    /\ last.config_type = NoModel
    /\ last.input_type = ""
    /\ ~last.again.made
    /\ \E onboard_models \in RegistryOrders :
          LET d == ChooseMatch(FindMatchingIn(onboard_models, source))
              second(retrieved) ==
                  LET call == ProcessCall(NoModel, "", last.file_name, d, retrieved)
                  IN [made |-> TRUE, order |-> onboard_models,
                      dispatch |-> call.dispatch, res |-> call.res]
          IN IF d.error # NoError \/ ~CallBinds
             THEN last' = [last EXCEPT !.again = second(Idle.res)]
             ELSE \E payload \in Digests, found \in BOOLEAN, hops \in 0..MaxHops,
                     netok \in BOOLEAN :
                     last' = [last EXCEPT !.again =
                                 second(Retrieve(d.model_cls, source, payload,
                                                 last.file_name, TRUE, found, hops,
                                                 netok))]
    /\ UNCHANGED <<source, fs, record>>

\* accepts_uri of every registered model, asked with the source
AskAcceptsUri ==
    /\ last = Idle
    /\ last' = [Idle EXCEPT !.op = "accepts_uri", !.answers = Answers(source)]
    /\ UNCHANGED <<source, fs, record>>

CallLocalRetrieve ==
    /\ last = Idle
    /\ \E payload \in Digests, file_name \in FileNames, attach_metadata \in BOOLEAN :
          last' = StrategyCall("local.retrieve", file_name, attach_metadata, "none", 0,
                      LocalRetrieve(source, payload, file_name, attach_metadata))
    /\ UNCHANGED <<source, fs, record>>

CallLocalRetrieveBundle ==
    /\ last = Idle
    /\ \E import_config \in ImportConfigs, attach_metadata \in BOOLEAN :
          last' = StrategyCall("local.retrieve_bundle", <<>>, attach_metadata,
                      import_config, 0,
                      LocalRetrieveBundle(source, import_config, attach_metadata))
    /\ UNCHANGED <<source, fs, record>>

CallRemoteRetrieve ==
    /\ last = Idle
    /\ \E payload \in Digests, file_name \in FileNames, attach_metadata \in BOOLEAN,
          hops \in 0..MaxHops, netok \in BOOLEAN :
          last' = StrategyCall("url.retrieve", file_name, attach_metadata, "none", hops,
                      RemoteRetrieve(source, payload, file_name, attach_metadata, hops,
                                     netok))
    /\ UNCHANGED <<source, fs, record>>

CallRemoteRetrieveBundle ==
    /\ last = Idle
    /\ \E import_config \in ImportConfigs, attach_metadata \in BOOLEAN,
          hops \in 0..MaxHops, netok \in BOOLEAN, primary_ok \in BOOLEAN,
          secondary_ok \in BOOLEAN :
          last' = [StrategyCall("url.retrieve_bundle", <<>>, attach_metadata,
                      import_config, hops,
                      RemoteRetrieveBundle(source, import_config, attach_metadata, hops,
                                           netok, primary_ok, secondary_ok))
                      EXCEPT !.primary_ok = primary_ok, !.secondary_ok = secondary_ok]
    /\ UNCHANGED <<source, fs, record>>

CallZenodoRetrieve ==
    /\ last = Idle
    /\ \E file_name \in FileNames, attach_metadata \in BOOLEAN, found \in BOOLEAN,
          hops \in 0..MaxHops, netok \in BOOLEAN :
          last' = StrategyCall("zenodo.retrieve", file_name, attach_metadata, "none",
                      hops,
                      ZenodoRetrieve(source, file_name, attach_metadata, found, hops,
                                     netok))
    /\ UNCHANGED <<source, fs, record>>

CallZenodoRetrieveBundle ==
    /\ last = Idle
    /\ \E import_config \in ImportConfigs, attach_metadata \in BOOLEAN,
          found \in BOOLEAN, hops \in 0..MaxHops, netfail \in 0..MaxFiles,
          unpacks \in BOOLEAN :
          \E res \in {ZenodoRetrieveBundle(source, import_config, attach_metadata,
                                           found, hops, netfail, unpacks)} :
             LET call == StrategyCall("zenodo.retrieve_bundle", <<>>, attach_metadata,
                                      import_config, hops, res)
             IN \* path = FileBundle.create_tmp_dir() is made only when the uri
                \* names no file
                IF \E k \in 1..Len(res.events) : res.events[k].e = "mkdir"
                THEN \E tmp_dir \in TmpDirs :
                        last' = [call EXCEPT !.path = tmp_dir,
                                             !.targets = DownloadTargets(tmp_dir, record,
                                                                         res.events)]
                ELSE last' = call
    /\ UNCHANGED <<source, fs, record>>

\* DownloadFileModule.process with the source as its url; declared: the
\* module's download_metadata configuration, lenient: whether the host takes
\* a value for an output field that the schema does not declare
CallDownloadFileProcess ==
    /\ last = Idle
    /\ \E payload \in Digests, file_name \in FileNames, hops \in 0..MaxHops,
          netok \in BOOLEAN, declared \in BOOLEAN, lenient \in BOOLEAN :
          last' = DownloadFileProcess(source, payload, file_name, hops, netok,
                                      declared \/ lenient)
    /\ UNCHANGED <<source, fs, record>>

Next ==
    \/ Process
    \/ ProcessAgain
    \/ AskAcceptsUri
    \/ CallLocalRetrieve
    \/ CallLocalRetrieveBundle
    \/ CallRemoteRetrieve
    \/ CallRemoteRetrieveBundle
    \/ CallZenodoRetrieve
    \/ CallZenodoRetrieveBundle
    \/ CallDownloadFileProcess

Spec == Init /\ [][Next]_vars

SpecUri == InitUri /\ [][Next]_vars

SpecKeys == InitKeys /\ [][Next]_vars

(***************************************************************************)
(* Claims                                                                  *)
(***************************************************************************)

\* the kinds of step a call of last performed, in order
Steps == last.res.events
Did(e, i) == \E k \in 1..Len(Steps) : Steps[k] = Ev(e, i)
DidAny(e) == \E k \in 1..Len(Steps) : Steps[k].e = e
\* step (e1, i1) was performed, and before every step (e2, i2)
Before(e1, i1, e2, i2) ==
    /\ Did(e1, i1)
    /\ \A k \in 1..Len(Steps) :
          Steps[k] = Ev(e2, i2) => \E j \in 1..(k - 1) : Steps[j] = Ev(e1, i1)

AutoDetect ==
    last.op = "process" /\ last.config_type = NoModel /\ last.input_type = ""

\* the registered models whose accepts_uri answered "accepted"
Accepting == {i \in 1..Len(last.answers) : last.answers[i]}

DispatchErrors ==
    {"no_onboard_model", "ambiguous", "rejects_source", "unknown_onboard_type"}

\* C1: in auto-detect mode, when exactly one registered model accepts the
\* source, process chooses that model, raises no dispatch error and enters
\* that model's retrieve.
C1_AutoDetectSelectsTheOnlyMatch ==
    (AutoDetect /\ Cardinality(Accepting) = 1)
        => /\ \E i \in Accepting : last.model_cls = Registry[i]
           /\ last.res.error.kind \notin DispatchErrors
           /\ last.retrieve_entered

\* the model class an explicit call names
ExplicitId ==
    IF last.config_type # NoModel THEN last.config_type
    ELSE <<ONBOARDING_MODEL_NAME_PREFIX, last.input_type>>

Explicit == last.op = "process" /\ ~AutoDetect

\* C2: in explicit mode, when the named model's accepts_uri rejects the
\* source, process fails with the "rejects source" error, does not call
\* retrieve and chooses no model.
C2_ExplicitModeRevalidates ==
    (Explicit /\ IsRegistered(ExplicitId) /\ ~Accepted(ExplicitId, source))
        => /\ last.res.error.kind = "rejects_source"
           /\ ~DidAny("call_retrieve")
           /\ ~last.retrieve_entered

\* file i of the record serves bytes whose MD5 is not the declared one
Mismatch(i) == record[i].checksum # Md5Tag \o record[i].payload

C4_AmbiguityIsAnError ==
    (AutoDetect /\ Cardinality(Accepting) >= 2)
        => /\ last.res.error.kind = "ambiguous"
           /\ last.model_cls = NoModel
           /\ ~DidAny("call_retrieve")
           /\ ~last.retrieve_entered

C4_Witness ==
    /\ AutoDetect
    /\ Cardinality(Accepting) >= 2
    /\ last.res.error.kind = "ambiguous"

\* retrieve_bundle in the mode that downloads every file of the record
BundleOfRecord ==
    /\ last.op = "zenodo.retrieve_bundle"
    /\ last.res.parse.parsed
    /\ last.res.parse.file_path = <<>>
    /\ Did("mkdir", 0)

\* the downloads a call started, in the order it started them
Streams == SelectSeq(Steps, LAMBDA st : st.e = "stream")

C6_PairwiseExclusive ==
    (last.op = "accepts_uri" /\ IsFile(source))
        => last.answers = <<TRUE, FALSE, FALSE>>

ZenodoOp == last.op \in {"zenodo.retrieve", "zenodo.retrieve_bundle"}

Extracting == last.op = "url.retrieve_bundle" /\ Did("mkdtemp", 0)

\* C8: when shutil.unpack_archive fails, patool is tried before an error is
\* reported; the call fails with the extraction error only if both fail and
\* goes on to the import if either succeeds; patool is not tried when
\* shutil.unpack_archive succeeds.
C8_ExtractionFallsBack ==
    Extracting
        => /\ Did("unpack_archive", 0)
           /\ ~last.primary_ok => Before("unpack_archive", 0, "patool", 0)
           /\ last.primary_ok => ~DidAny("patool")
           /\ last.res.error.kind = "extraction"
                 <=> (~last.primary_ok /\ ~last.secondary_ok)
           /\ (last.primary_ok \/ last.secondary_ok)
                 => /\ Did("import_folder", 0)
                    /\ last.res.error = NoError
                    /\ last.res.artifact.kind = "bundle"

C8_Witness ==
    /\ Extracting
    /\ ~last.primary_ok
    /\ last.secondary_ok
    /\ Before("patool", 0, "import_folder", 0)
    /\ last.res.artifact.kind = "bundle"

\* C9: when both extraction attempts fail, the error reported refers to the
\* error of the first attempt and to the error of the second.
C9_ExtractionErrorKeepsBothCauses ==
    (Extracting /\ last.res.error.kind = "extraction")
        => {"unpack_archive_error", "patool_error"} \subseteq last.res.error.refs

\* the number of occurrences of '/zenodo.' in s
CountToken(s) == Cardinality({i \in 1..Len(s) : OccursAt(s, ZenodoToken, i)})

\* the first half of C10: a uri [zenodo:]<prefix>/zenodo.<id>/<path> with
\* one '/zenodo.' is parsed into the doi <prefix>/zenodo.<id>, the id and
\* the path
C10_ParsesTheForm ==
    ZenodoOp
        => \A zp \in BOOLEAN, p \in Prefixes, i \in Ids, f \in Paths :
              (source = Compose(zp, p, i, f) /\ CountToken(source) = 1)
                  => last.res.parse = Parsed(p \o ZenodoToken \o i, i, f)

\* the second half of C10: a uri that does not split on '/zenodo.' into two
\* segments fails with the "cannot parse DOI" error before the record is
\* looked up
C10_RejectsOtherSplits ==
    (ZenodoOp /\ CountToken(source) # 1)
        => last.res.error.kind = "cannot_parse_doi" /\ ~DidAny("find_record_by_doi")

\* C10: Zenodo uris of the form [zenodo:]<prefix>/zenodo.<id>/<path> are
\* parsed into doi, id and path, and a uri whose split on '/zenodo.' does not
\* give two segments fails with the "cannot parse DOI" error before any
\* record lookup.
C10_ZenodoUriParsing == C10_ParsesTheForm /\ C10_RejectsOtherSplits

\* a call of one of the two modules' process
ModuleOp == last.op \in {"process", "download.file"}

\* C11: in OnboardFileModule.process and DownloadFileModule.process a call
\* that ends in an error has set no "file" output, and a "file" output is
\* set only by a call that raised nothing, after the file was loaded, and
\* is the file retrieved.
C11_NoOutputOnFailure ==
    ModuleOp
        => /\ last.res.error # NoError => last.output = NoArtifact
           /\ last.output # NoArtifact
                 => /\ last.res.error = NoError
                    /\ DidAny("load_file")
                    /\ last.output = last.res.artifact

C11_Witness ==
    /\ last.op = "download.file"
    /\ Did("stream", 0)
    /\ last.res.error.kind = "transfer"
    /\ last.output = NoArtifact

\* a call of the url strategy, which is download_file or download_file_bundle
UrlOp == last.op \in {"url.retrieve", "url.retrieve_bundle"}

\* the call returned an artifact that carries download metadata
Attached == last.res.artifact # NoArtifact /\ last.res.artifact.metadata.attached

\* C12: the response_headers that download_file and download_file_bundle
\* record are the headers of the redirect hops in the order they were
\* followed, and the headers of the final response last.
C12_RedirectsFirstFinalLast ==
    (UrlOp /\ Attached)
        => last.res.artifact.metadata.response_headers
              = RedirectHeaders(last.hops) \o <<FinalHeaders>>

\* a call of a strategy's retrieve or retrieve_bundle
StrategyOp ==
    last.op \in {"local.retrieve", "local.retrieve_bundle", "url.retrieve",
                 "url.retrieve_bundle", "zenodo.retrieve", "zenodo.retrieve_bundle"}

\* the stage of a retrieval a step belongs to: 1 resolve, 2 download,
\* 3 verify, 4 extract / import, 5 attach metadata
Stage(e) ==
    CASE e \in {"find_record_by_doi", "mkdir"} -> 1
      [] e \in {"stream", "load_file"} -> 2
      [] e = "compare" -> 3
      [] e \in {"mkdtemp", "unpack_archive", "patool", "import_folder",
                "from_archive_file"} -> 4
      [] e \in {"attach_metadata", "attach_record_data"} -> 5

\* steps j and k concern the same file, or one of them the whole retrieval
SameSubject(j, k) == Steps[j].i = Steps[k].i \/ Steps[j].i = 0 \/ Steps[k].i = 0

FileLookup ==
    /\ ZenodoOp
    /\ last.res.parse.parsed
    /\ last.op = "zenodo.retrieve_bundle" => last.res.parse.file_path # <<>>
    /\ Did("find_record_by_doi", 0)
    /\ last.res.error.kind # "lookup"

\* the files of the record whose key is the file path of the uri
Matches == {i \in 1..Len(record) : record[i].key = last.res.parse.file_path}

\* C14: a Zenodo call that names a file downloads the first file of the
\* record whose key is the file path and no other; when no key is the file
\* path it fails with the "file not found" error, whose message lists the
\* key of every file of the record, and downloads nothing.
C14_FirstMatchOrNotFound ==
    FileLookup
        => IF Matches = {}
           THEN /\ last.res.error.kind = "file_not_found"
                /\ last.res.error.refs = {record[i].key : i \in 1..Len(record)}
                /\ ~DidAny("stream")
           ELSE /\ last.res.error.kind # "file_not_found"
                /\ \E i \in Matches :
                      /\ \A j \in Matches : i <= j
                      /\ Did("stream", i)
                      /\ \A k \in 1..Len(Steps) : Steps[k].i \in {0, i}

\* two files of the record have the key asked for, and the first was taken
C14_Witness ==
    /\ FileLookup
    /\ Cardinality(Matches) = 2
    /\ record[1].payload # record[2].payload
    /\ Did("stream", 1)
    /\ last.res.artifact # NoArtifact

\* a call of a strategy's retrieve that returned a file
Retrieved ==
    /\ last.op \in {"local.retrieve", "url.retrieve", "zenodo.retrieve"}
    /\ last.res.artifact # NoArtifact

\* the part of the claim about a file name given by the caller
C15_CallerNameOverrides ==
    (Retrieved /\ last.file_name # <<>>)
        => last.res.artifact.file_name = last.file_name

\* the part of the claim about the url strategy called without a file name
C15_UrlDefaultsToLastSegment ==
    (Retrieved /\ last.op = "url.retrieve" /\ last.file_name = <<>>)
        => last.res.artifact.file_name = LastOf(Split(source, Slash))

\* C15: the file a strategy's retrieve returns has the file name the caller
\* gave as its name, for each of the three strategies; the url strategy
\* called without a file name names the file after the last path segment of
\* the url.
C15_FileNameOverride == C15_CallerNameOverrides /\ C15_UrlDefaultsToLastSegment

\* a call of a strategy's retrieve_bundle that returned a bundle
BundleRetrieved ==
    /\ last.op \in {"local.retrieve_bundle", "url.retrieve_bundle",
                     "zenodo.retrieve_bundle"}
    /\ last.res.artifact.kind = "bundle"

\* C16: the bundle a strategy's retrieve_bundle returns was imported under
\* the import configuration the caller gave, for the local folder, the url
\* archive, the Zenodo archive file and the Zenodo record of files.
C16_ImportConfigPassedThrough ==
    BundleRetrieved => last.res.artifact.import_config = last.import_config

\* C17: when download_file or download_file_bundle was asked to attach
\* metadata and returned an artifact, the artifact carries the metadata, and
\* its response_headers has at least one entry and holds the headers of the
\* final response.
C17_ResponseHeadersHoldFinal ==
    (UrlOp /\ last.attach_metadata /\ last.res.artifact # NoArtifact)
        => LET response_headers == last.res.artifact.metadata.response_headers
           IN /\ last.res.artifact.metadata.attached
              /\ Len(response_headers) >= 1
              /\ \E k \in 1..Len(response_headers) : response_headers[k] = FinalHeaders

\* a download answered without a redirect: the final response is the only entry
C17_Witness ==
    /\ UrlOp
    /\ Attached
    /\ last.hops = 0
    /\ Len(last.res.artifact.metadata.response_headers) = 1

\* C20: the request_time of the download metadata is the time the request
\* was issued, taken before the body is streamed, in download_file,
\* download_file_bundle and DownloadFileModule.process.
C20_RequestTimeBeforeTransfer ==
    /\ (UrlOp /\ Attached)
          => last.res.artifact.metadata.request_time = "before_transfer"
    /\ (last.op = "download.file" /\ last.output_metadata.attached)
          => last.output_metadata.request_time = "before_transfer"

\* C18: in auto-detect mode, when no registered model accepts the source,
\* process fails with the "no onboard model" error and calls no retrieve.
C18_NoMatchIsUnsupported ==
    (AutoDetect /\ Accepting = {})
        => /\ last.res.error.kind = "no_onboard_model"
           /\ ~DidAny("call_retrieve")
           /\ ~last.retrieve_entered

\* C19: two auto-detect calls of process with the same source on the same
\* registry and file system dispatch alike, whatever the order in which the
\* registry enumerates its models for the second: both choose the same model
\* class or both raise the same dispatch error.
C19_DispatchIsDeterministic ==
    last.again.made
        => /\ last.again.dispatch = last.dispatch
           /\ last.again.res.error = last.res.error

\* the second call enumerated the models in another order than the first
C19_Witness ==
    /\ last.again.made
    /\ last.again.order # Registry
    /\ last.again.order[1] # Registry[1]
    /\ last.again.dispatch = last.dispatch

\* the components of an absolute path with "", "." and ".." resolved
RECURSIVE Resolve(_, _)
Resolve(components, stack) ==
    IF components = <<>> THEN stack
    ELSE LET c == Head(components)
         IN IF c = <<>> \/ c = <<".">> THEN Resolve(Tail(components), stack)
            ELSE IF c = <<".", ".">>
                 THEN Resolve(Tail(components),
                              IF stack = <<>> THEN <<>>
                              ELSE SubSeq(stack, 1, Len(stack) - 1))
                 ELSE Resolve(Tail(components), Append(stack, c))

NormPath(p) == Resolve(Split(p, Slash), <<>>)

\* target names a path below the directory dir
Inside(dir, target) ==
    LET d == NormPath(dir)
        t == NormPath(target)
    IN Len(t) > Len(d) /\ SubSeq(t, 1, Len(d)) = d

\* the part of C21 about the call's own directory
C21_TargetsInsideOwnDir ==
    BundleOfRecord
        => \A k \in 1..Len(last.targets) : Inside(last.path, last.targets[k])

\* the part of C21 about a concurrent call, which has another fresh directory
C21_NoSharedTarget ==
    BundleOfRecord
        => \A k \in 1..Len(last.targets), q \in TmpDirs \ {last.path},
              j \in 1..Len(record) :
              NormPath(OsPathJoin(q, record[j].key)) # NormPath(last.targets[k])

\* C21: when retrieve_bundle downloads every file of a record, the target of
\* each download lies inside the fresh directory made for the call, whatever
\* the key of the file, and is no target of a call that has another fresh
\* directory.
C21_ScratchContainment == C21_TargetsInsideOwnDir /\ C21_NoSharedTarget

====
